---- MODULE Spec2Model ----
(***************************************************************************)
(* Model of the flight assistant backend: the worker / tools / evaluator   *)
(* graph of agent.py, the /chat endpoint of main.py and the two tools of   *)
(* flightassistant_tools.py.                                               *)
(*                                                                         *)
(* Text is modelled as a sequence of tokens (coarse characters): the empty *)
(* string is <<>>, concatenation is \o and "contains" is contiguous        *)
(* sub-sequence.  An Optional[str] is a record [some, val].                *)
(***************************************************************************)
EXTENDS Integers, Sequences, FiniteSets, TLC

\* ------------------------------------------------------------------ bounds
\* number of chat requests the clients send
NumRequests == 2
\* requests started plus node executions (worker, tools, evaluator) over all
\* requests
MaxSteps == 5
\* direct tool invocations of the tool harness
MaxCalls == 2

Requests == 1..NumRequests

\* ------------------------------------------------------------ text helpers
None == [some |-> FALSE, val |-> <<>>]
Some(s) == [some |-> TRUE, val |-> s]
\* Python truthiness of an Optional[str]: None and "" are falsy
Truthy(o) == o.some /\ o.val # <<>>

\* --------------------------------------------------------- fixed strings
SUCCESS_CRITERIA == <<"Answer clearly. Offer email if relevant.">>
DEFAULT_CRITERIA == <<"Provide a helpful answer">>
DEFAULT_THREAD == "default_user"

\* the sentence the worker is told to give on a cold start
WARNING_TEXT ==
  <<"El servidor de vuelos se esta ", "iniciando", " (", "Cold Start", "). ",
    "Por favor, espera 30 segundos y vuelve a preguntarme.">>

RATE_LIMIT_MSG ==
  <<"La API de vuelos esta saturada momentaneamente. ",
    "Por favor, espera 1 minuto e intentalo de nuevo.">>

COLD_START_MSG ==
  <<"El servidor de vuelos se esta ", "reiniciando", " (", "Cold Start", "). ",
    "Por favor, intenta la misma busqueda en 30 segundos.">>

CONFIG_ERROR_MARKER == <<"Error de configuracion">>
CONFIG_ERROR_MSG ==
  CONFIG_ERROR_MARKER \o <<": Credenciales de email no encontradas en el entorno.">>

FARE_TOOL == "ryanair_flight_search"
EMAIL_TOOL == "send_email"


\* ------------------------------------------------------------------ tools
\* what a tool call does: the value it returns (kind, val), the exception it
\* lets escape (raised, exc), the SMTP connections it opens and whether the
\* mail went out
ToolReturn(kind, val) ==
  [kind |-> kind, val |-> val, raised |-> FALSE, exc |-> "", connects |-> 0, sent |-> FALSE]

\* the HTTP exchange of one fare lookup: net says whether client.get returned
\* a response or raised, status is the response's code, json_ok whether its
\* body decodes
HttpStatuses == {200, 204, 301, 404, 429, 500, 502}
FareInputs ==
  [net : {"response"}, status : HttpStatuses, json_ok : BOOLEAN]
    \cup [net : {"request_error", "other_error"}, status : {0}, json_ok : {FALSE}]

is_success(status) == status >= 200 /\ status <= 299

FARE_DATA == <<"fares">>
ErrorDict(msg) == ToolReturn("dict", <<"error", msg>>)
IsErrorDict(ret) == ret.kind = "dict" /\ Len(ret.val) = 2 /\ ret.val[1] = "error"

\* fault variant: the 429 branch left out, so a rate limit falls through to
\* raise_for_status
ryanair_flight_search_no429(h) ==
  IF h.net = "request_error" THEN ErrorDict("Error de conexion")
  ELSE IF h.net = "other_error" THEN ErrorDict("Error inesperado")
  ELSE IF h.status = 502 THEN ToolReturn("str", COLD_START_MSG)
  ELSE IF ~is_success(h.status) THEN ErrorDict("Error HTTP")
  ELSE IF ~h.json_ok THEN ErrorDict("Error inesperado")
  ELSE ToolReturn("dict", FARE_DATA)

\* fault variant: the 502 branch answering with the rate-limit text
ryanair_flight_search_one_warning(h) ==
  IF h.net = "request_error" THEN ErrorDict("Error de conexion")
  ELSE IF h.net = "other_error" THEN ErrorDict("Error inesperado")
  ELSE IF h.status = 429 THEN ToolReturn("str", RATE_LIMIT_MSG)
  ELSE IF h.status = 502 THEN ToolReturn("str", RATE_LIMIT_MSG)
  ELSE IF ~is_success(h.status) THEN ErrorDict("Error HTTP")
  ELSE IF ~h.json_ok THEN ErrorDict("Error inesperado")
  ELSE ToolReturn("dict", FARE_DATA)

\* the tool body: the try block, the two special-cased statuses and the three
\* except clauses, in the order the code tests them
ryanair_flight_search(h) ==
  IF h.net = "request_error" THEN ErrorDict("Error de conexion")
  ELSE IF h.net = "other_error" THEN ErrorDict("Error inesperado")
  ELSE IF h.status = 429 THEN ToolReturn("str", RATE_LIMIT_MSG)
  ELSE IF h.status = 502 THEN ToolReturn("str", COLD_START_MSG)
  ELSE IF ~is_success(h.status) THEN ErrorDict("Error HTTP")
  ELSE IF ~h.json_ok THEN ErrorDict("Error inesperado")
  ELSE ToolReturn("dict", FARE_DATA)

\* the environment and the SMTP server as one send_email call finds them:
\* the two variables (unset, empty or set), the step of the submission that
\* fails, and whether quit() on an open connection succeeds
SenderValues == {None, Some(<<>>), Some(<<"sender@gmail.com">>)}
PasswordValues == {None, Some(<<"app-password">>)}
SmtpSteps == {"connect", "starttls", "login", "sendmail"}
EmailInputs ==
  [sender : SenderValues, password : PasswordValues,
   fail_at : SmtpSteps \cup {"none"}, quit_ok : BOOLEAN]

\* fault variant: the credentials test left out
send_email_unchecked(e) ==
  IF e.fail_at = "connect" THEN
    [kind |-> "none", val |-> <<>>, raised |-> TRUE, exc |-> "AttributeError",
     connects |-> 1, sent |-> FALSE]
  ELSE
    [kind |-> "none", val |-> <<>>, raised |-> ~e.quit_ok,
     exc |-> IF e.quit_ok THEN "" ELSE "SMTPServerDisconnected",
     connects |-> 1, sent |-> e.fail_at = "none"]

\* the tool body
send_email(e) ==
  IF ~Truthy(e.sender) \/ ~Truthy(e.password) THEN
    ToolReturn("str", CONFIG_ERROR_MSG)
  ELSE IF e.fail_at = "connect" THEN
    \* servidor is still None in the finally block, whose test
    \* "if 'servidor'" is always true: None.quit() raises
    [kind |-> "none", val |-> <<>>, raised |-> TRUE, exc |-> "AttributeError",
     connects |-> 1, sent |-> FALSE]
  ELSE
    \* the except block swallows a failure of starttls, login or sendmail;
    \* the function ends without a return statement
    [kind |-> "none", val |-> <<>>, raised |-> ~e.quit_ok,
     exc |-> IF e.quit_ok THEN "" ELSE "SMTPServerDisconnected",
     connects |-> 1, sent |-> e.fail_at = "none"]


\* --------------------------------------------------------------- messages
\* BaseMessage: type is "system", "human", "ai" or "tool"; content is text;
\* tool_calls (AIMessage) is a sequence of [name, id]; name and tool_call_id
\* (ToolMessage) say which tool and which request a result answers
SystemMessage(content) ==
  [type |-> "system", content |-> content, tool_calls |-> <<>>, id |-> <<>>,
   name |-> "", tool_call_id |-> <<>>]
HumanMessage(content, id) ==
  [type |-> "human", content |-> content, tool_calls |-> <<>>, id |-> id,
   name |-> "", tool_call_id |-> <<>>]
AIMessage(content, tool_calls, id) ==
  [type |-> "ai", content |-> content, tool_calls |-> tool_calls, id |-> id,
   name |-> "", tool_call_id |-> <<>>]
ToolMessage(content, name, tool_call_id, id) ==
  [type |-> "tool", content |-> content, tool_calls |-> <<>>, id |-> id,
   name |-> name, tool_call_id |-> tool_call_id]

\* identifiers are fresh (uuid4, the model's run id): request r names the
\* message it creates at position k of its channel <<r, k>>
NewId(r, k) == <<r, k>>

\* the reducer of State.messages: a message whose id is already in the list
\* replaces that entry in place, any other message is appended
\* (fault variant: no reducer, the new value replaces the list)
add_messages_overwrite(left, right) == right

RECURSIVE add_messages(_, _)
add_messages(left, right) ==
  IF right = <<>> THEN left
  ELSE LET m == Head(right)
           merged == IF \E i \in DOMAIN left : left[i].id = m.id
                     THEN [i \in DOMAIN left |-> IF left[i].id = m.id THEN m ELSE left[i]]
                     ELSE Append(left, m)
       IN add_messages(merged, Tail(right))

\* ----------------------------------------------------------------- State
\* the channels of one thread before any input was applied
EmptyChannels ==
  [messages |-> <<>>, success_criteria |-> None, feedback_on_work |-> None,
   success_criteria_met |-> FALSE, user_input_needed |-> FALSE]

\* ChatRequest.thread_id: a client sends a thread id or omits the field
Threads == {DEFAULT_THREAD, "t1"}
OmittedThread == [some |-> FALSE, val |-> ""]
\* the thread ids the clients send
SentThreadIds == {"t1"}
ThreadInputs == {OmittedThread} \cup {[some |-> TRUE, val |-> t] : t \in SentThreadIds}
\* (fault variant: a missing thread_id filled in with another id)
ChatRequestThread_other_default(tin) == IF tin.some THEN tin.val ELSE "t1"
ChatRequestThread(tin) == IF tin.some THEN tin.val ELSE DEFAULT_THREAD

\* run_superstep's config: the checkpointer key of a run is its thread id
\* (fault variant: one fixed key for every run)
config_thread_id_fixed(thread_id) == DEFAULT_THREAD
config_thread_id(thread_id) == thread_id

UserInputs == {<<"vuelos MAD-LON">>}

\* what the worker's language model may answer: text, tool requests or both
WorkerOutputs ==
  { [content |-> <<"answer">>, tools |-> <<>>],
    [content |-> WARNING_TEXT, tools |-> <<>>],
    [content |-> <<>>, tools |-> <<FARE_TOOL>>],
    [content |-> <<"searching">>, tools |-> <<FARE_TOOL, EMAIL_TOOL>>] }

\* EvaluatorOutput, as the evaluator's language model may fill it
FeedbackTexts == {<<>>, <<"offer the email summary">>}
EvaluatorOutput ==
  [feedback : FeedbackTexts, success_criteria_met : BOOLEAN, user_input_needed : BOOLEAN]
\* the judgments the runs meet: every combination of the flags, with and
\* without feedback text on a rejection
Judgments ==
  {j \in EvaluatorOutput :
     j.feedback = <<>> => (~j.success_criteria_met /\ ~j.user_input_needed)
                          \/ (j.success_criteria_met /\ ~j.user_input_needed)}
NoJudgment ==
  [some |-> FALSE,
   val |-> [feedback |-> <<>>, success_criteria_met |-> FALSE, user_input_needed |-> FALSE]]

\* what chat_endpoint sends back: nothing yet, ChatResponse, or HTTP 500
NoResponse == [status |-> "", body |-> <<>>]
ChatResponse(text) == [status |-> "success", body |-> text]
\* (fault variant: the except block answers with a ChatResponse)
HTTPException_swallowed(detail) == [status |-> "success", body |-> <<detail>>]
HTTPException(detail) == [status |-> "500", body |-> <<detail>>]

\* the body of a POST /chat request (before one is sent: NoRequest)
NoRequest == [message |-> <<>>, thread_id |-> OmittedThread]

VARIABLES
  store,        \* checkpointer: thread id -> latest saved channels
  request,      \* request -> the ChatRequest as the client sent it
  pc,           \* request -> "idle", "worker", "tools", "evaluator", "END", "failed"
  thread,       \* request -> thread id it runs under ("" while idle)
  state,        \* request -> the channels of its graph run
  llm_input,    \* request -> final_messages of its latest worker call
  eval_result,  \* request -> its latest evaluator judgment
  response,     \* request -> what chat_endpoint answered
  steps,        \* requests started and node executions so far
  calls         \* tool harness: the direct tool invocations made so far

vars == <<store, request, pc, thread, state, llm_input, eval_result, response, steps, calls>>
graphVars == <<store, request, pc, thread, state, llm_input, eval_result, response, steps>>

Init ==
  /\ store = [t \in Threads |-> EmptyChannels]
  /\ request = [r \in Requests |-> NoRequest]
  /\ pc = [r \in Requests |-> "idle"]
  /\ thread = [r \in Requests |-> ""]
  /\ state = [r \in Requests |-> EmptyChannels]
  /\ llm_input = [r \in Requests |-> <<>>]
  /\ eval_result = [r \in Requests |-> NoJudgment]
  /\ response = [r \in Requests |-> NoResponse]
  /\ steps = 0
  /\ calls = <<>>


\* ------------------------------------------------------------ graph nodes
BASE_PROMPT(criteria) ==
  <<"You are a helpful assistant equipped with web tools and FLIGHT search tools, and EMAIL tools.",
    "The current date is ", "<now>", "This is the success criteria:">>
  \o criteria
  \o <<"CRITICAL ERROR HANDLING: If the 'ryanair_flight_search' tool returns a message mentioning ",
       "Cold Start", ", ", "reiniciando", ", or ", "502", ": ",
       "1. DO NOT CALL THE TOOL AGAIN immediately. 2. STOP and inform the user: ">>
  \o WARNING_TEXT
  \o <<"3. Do not try to fix it yourself, just report it and stop.",
       "RULES FOR FLIGHT SEARCH", "RULES FOR EMAIL">>

FeedbackSection(feedback) ==
  <<"Previously your reply was rejected. Feedback: ">> \o feedback \o <<"Please fix this.">>

\* fault variant: the feedback section never appended
system_message_content_nofeedback(st) ==
  BASE_PROMPT(IF st.success_criteria.some THEN st.success_criteria.val ELSE DEFAULT_CRITERIA)

\* the worker's system prompt, with the feedback section when
\* feedback_on_work is truthy
system_message_content(st) ==
  BASE_PROMPT(IF st.success_criteria.some THEN st.success_criteria.val ELSE DEFAULT_CRITERIA)
  \o (IF Truthy(st.feedback_on_work) THEN FeedbackSection(st.feedback_on_work.val) ELSE <<>>)

IsNotSystem(m) == m.type # "system"
\* (fault variant: the system message not prepended)
final_messages_nosystem(st) == SelectSeq(st.messages, IsNotSystem)

\* the list handed to worker_llm_with_tools: a new SystemMessage, then the
\* state's messages without any SystemMessage
final_messages(st) ==
  <<SystemMessage(system_message_content(st))>> \o SelectSeq(st.messages, IsNotSystem)

Last(seq) == seq[Len(seq)]

\* fault variant: the tool_calls test left out
worker_router_always_evaluator(st) == "evaluator"

worker_router(st) ==
  IF Last(st.messages).type = "ai" /\ Last(st.messages).tool_calls # <<>>
  THEN "tools" ELSE "evaluator"

\* fault variant: the loop cut after the first judgment
route_based_on_evaluation_always_end(st) == "END"

\* fault variant: user_input_needed ignored
route_based_on_evaluation_met_only(st) ==
  IF st.success_criteria_met THEN "END" ELSE "worker"

route_based_on_evaluation(st) ==
  IF st.success_criteria_met \/ st.user_input_needed THEN "END" ELSE "worker"

\* the tool calls of a graph run meet these situations: fares found, rate
\* limit, cold start and a server error; credentials missing, SMTP server
\* unreachable and mail sent
RunFareInputs ==
  {h \in FareInputs : h.net = "response" /\ h.json_ok /\ h.status \in {200, 429, 500, 502}}
RunEmailInputs ==
  {e \in EmailInputs :
     /\ e.quit_ok
     /\ e.password = Some(<<"app-password">>)
     /\ \/ e.sender = None /\ e.fail_at = "none"
        \/ e.sender = Some(<<"sender@gmail.com">>) /\ e.fail_at \in {"connect", "none"}}

\* ToolNode: the content of the ToolMessage made from a tool's outcome
ToolContent(ret) ==
  IF ret.raised THEN <<"Error: ", ret.exc, " Please fix your mistakes.">>
  ELSE IF ret.kind = "none" THEN <<"null">>
  ELSE ret.val

\* run_superstep's initial_input: the user's message and the reset control
\* fields
initial_input(user_input, id) ==
  [messages |-> <<HumanMessage(user_input, id)>>,
   success_criteria |-> Some(SUCCESS_CRITERIA),
   success_criteria_met |-> FALSE,
   user_input_needed |-> FALSE,
   feedback_on_work |-> None]

\* fault variant: feedback_on_work missing from the input, so the saved one
\* stays
apply_input_keep_feedback(loaded, input) ==
  [messages |-> add_messages(loaded.messages, input.messages),
   success_criteria |-> input.success_criteria,
   feedback_on_work |-> loaded.feedback_on_work,
   success_criteria_met |-> input.success_criteria_met,
   user_input_needed |-> input.user_input_needed]

\* ainvoke applies the input to the loaded channels: messages go through
\* the add_messages reducer, every other key given replaces the saved value
apply_input(loaded, input) ==
  [messages |-> add_messages(loaded.messages, input.messages),
   success_criteria |-> input.success_criteria,
   feedback_on_work |-> input.feedback_on_work,
   success_criteria_met |-> input.success_criteria_met,
   user_input_needed |-> input.user_input_needed]

\* the edge START -> worker (fault variant: START -> evaluator)
entry_point_evaluator == "evaluator"
entry_point == "worker"

\* POST /chat: the request's thread id (or the default), the checkpoint of
\* that thread loaded, initial_input applied through the reducers, the
\* result saved, and the run placed at START -> worker
StartTurn(r) ==
  /\ pc[r] = "idle"
  /\ \A q \in Requests : q < r => pc[q] # "idle"
  /\ steps < MaxSteps
  /\ \E tin \in ThreadInputs, msg \in UserInputs :
       LET tid == ChatRequestThread(tin)
           loaded == store[config_thread_id(tid)]
           new == apply_input(loaded,
                    initial_input(msg, NewId(r, Len(loaded.messages) + 1)))
       IN /\ request' = [request EXCEPT ![r] = [message |-> msg, thread_id |-> tin]]
          /\ thread' = [thread EXCEPT ![r] = tid]
          /\ state' = [state EXCEPT ![r] = new]
          /\ store' = [store EXCEPT ![config_thread_id(tid)] = new]
          /\ pc' = [pc EXCEPT ![r] = entry_point]
  /\ steps' = steps + 1
  /\ UNCHANGED <<llm_input, eval_result, response, calls>>

\* the worker node and the conditional edge after it
Worker(r) ==
  /\ pc[r] = "worker"
  /\ steps < MaxSteps
  /\ \E out \in WorkerOutputs :
       LET k == Len(state[r].messages) + 1
           ai == AIMessage(out.content,
                   [i \in 1..Len(out.tools) |-> [name |-> out.tools[i], id |-> <<r, k, i>>]],
                   NewId(r, k))
           new == [state[r] EXCEPT !.messages = add_messages(@, <<ai>>)]
       IN /\ llm_input' = [llm_input EXCEPT ![r] = final_messages(state[r])]
          /\ state' = [state EXCEPT ![r] = new]
          /\ store' = [store EXCEPT ![config_thread_id(thread[r])] = new]
          /\ pc' = [pc EXCEPT ![r] = worker_router(new)]
  /\ steps' = steps + 1
  /\ UNCHANGED <<request, thread, eval_result, response, calls>>

\* the worker's language-model call raises: the run ends in chat_endpoint's
\* except block
WorkerRaises(r) ==
  /\ pc[r] = "worker"
  /\ llm_input' = [llm_input EXCEPT ![r] = final_messages(state[r])]
  /\ pc' = [pc EXCEPT ![r] = "failed"]
  /\ response' = [response EXCEPT ![r] = HTTPException("worker llm error")]
  /\ UNCHANGED <<store, request, thread, state, eval_result, steps, calls>>

\* the tools node (ToolNode) and its edge back to the worker: every request
\* of the last AIMessage is run and answered by one ToolMessage.  A tool that
\* raises is turned into an error ToolMessage or ends the run, depending on
\* the ToolNode's handle_tool_errors default.
Tools(r) ==
  /\ pc[r] = "tools"
  /\ steps < MaxSteps
  /\ \E h \in RunFareInputs, e \in RunEmailInputs, handled \in BOOLEAN :
       LET reqs == Last(state[r].messages).tool_calls
           n == Len(state[r].messages)
           ret(i) == IF reqs[i].name = FARE_TOOL THEN ryanair_flight_search(h)
                     ELSE send_email(e)
           results == [i \in 1..Len(reqs) |->
                         ToolMessage(ToolContent(ret(i)), reqs[i].name, reqs[i].id,
                                     NewId(r, n + i))]
           new == [state[r] EXCEPT !.messages = add_messages(@, results)]
       IN IF (\E i \in 1..Len(reqs) : ret(i).raised) /\ ~handled
          THEN /\ pc' = [pc EXCEPT ![r] = "failed"]
               /\ response' = [response EXCEPT ![r] = HTTPException("tool error")]
               /\ UNCHANGED <<state, store>>
          ELSE /\ state' = [state EXCEPT ![r] = new]
               /\ store' = [store EXCEPT ![config_thread_id(thread[r])] = new]
               /\ pc' = [pc EXCEPT ![r] = "worker"]
               /\ UNCHANGED response
  /\ steps' = steps + 1
  /\ UNCHANGED <<request, thread, llm_input, eval_result, calls>>

\* fault variant: the feedback also appended to the history as a message
evaluator_update_appends(st, j) ==
  [st EXCEPT !.messages = Append(@, AIMessage(j.feedback, <<>>, <<0, Len(@) + 1>>)),
             !.feedback_on_work = Some(j.feedback),
             !.success_criteria_met = j.success_criteria_met,
             !.user_input_needed = j.user_input_needed]

\* the evaluator's return value applied to the channels: three keys, none
\* of them messages
evaluator_update(st, j) ==
  [st EXCEPT !.feedback_on_work = Some(j.feedback),
             !.success_criteria_met = j.success_criteria_met,
             !.user_input_needed = j.user_input_needed]

\* the evaluator node and the conditional edge after it; on END ainvoke
\* returns, run_superstep takes the last message's content and chat_endpoint
\* answers with it
Evaluator(r) ==
  /\ pc[r] = "evaluator"
  /\ steps < MaxSteps
  /\ \E j \in Judgments :
       LET new == evaluator_update(state[r], j)
           route == route_based_on_evaluation(new)
       IN /\ eval_result' = [eval_result EXCEPT ![r] = [some |-> TRUE, val |-> j]]
          /\ state' = [state EXCEPT ![r] = new]
          /\ store' = [store EXCEPT ![config_thread_id(thread[r])] = new]
          /\ pc' = [pc EXCEPT ![r] = route]
          /\ response' = [response EXCEPT ![r] =
                            IF route = "END" THEN ChatResponse(Last(new.messages).content)
                            ELSE @]
  /\ steps' = steps + 1
  /\ UNCHANGED <<request, thread, llm_input, calls>>

\* the evaluator's language-model call raises
EvaluatorRaises(r) ==
  /\ pc[r] = "evaluator"
  /\ pc' = [pc EXCEPT ![r] = "failed"]
  /\ response' = [response EXCEPT ![r] = HTTPException("evaluator llm error")]
  /\ UNCHANGED <<store, request, thread, state, llm_input, eval_result, steps, calls>>

Next ==
  \E r \in Requests :
    \/ StartTurn(r)
    \/ Worker(r)
    \/ WorkerRaises(r)
    \/ Tools(r)
    \/ Evaluator(r)
    \/ EvaluatorRaises(r)

Spec == Init /\ [][Next]_vars

\* ----------------------------------------------------------- tool harness
\* the tools called directly, one invocation at a time, on every input
CallFare ==
  /\ Len(calls) < MaxCalls
  /\ \E h \in FareInputs :
       calls' = Append(calls, [tool |-> FARE_TOOL, arg |-> h, ret |-> ryanair_flight_search(h)])
  /\ UNCHANGED graphVars

CallEmail ==
  /\ Len(calls) < MaxCalls
  /\ \E e \in EmailInputs :
       calls' = Append(calls, [tool |-> EMAIL_TOOL, arg |-> e, ret |-> send_email(e)])
  /\ UNCHANGED graphVars

ToolNext == CallFare \/ CallEmail

ToolSpec == Init /\ [][ToolNext]_vars

TypeOK ==
  /\ \A r \in Requests : pc[r] \in {"idle", "worker", "tools", "evaluator", "END", "failed"}
  /\ steps \in 0..MaxSteps
  /\ Len(calls) <= MaxCalls


\* ------------------------------------------------------------- properties
\* s is an initial segment of t
IsPrefix(s, t) ==
  /\ Len(s) <= Len(t)
  /\ \A i \in 1..Len(s) : s[i] = t[i]

\* txt occurs verbatim (contiguously) in s
Contains(s, txt) ==
  \E k \in 0..(Len(s) - Len(txt)) :
    \A i \in 1..Len(txt) : s[k + i] = txt[i]

Running(r) == pc[r] \in {"worker", "tools", "evaluator"}
\* request r executes a node in this step
WorkerStep(r) == pc[r] = "worker" /\ pc'[r] # "worker"
EvaluatorStep(r) == pc[r] = "evaluator" /\ pc'[r] \in {"worker", "END"}

\* C1: after an Evaluator step the run is at END when the judgment has
\* success_criteria_met or user_input_needed, and back at the worker
\* otherwise; at END the answer is the content of the last message, and a run
\* at END (or failed) never moves again.
C1_EvaluatorRouting ==
  [][\A r \in Requests :
       /\ EvaluatorStep(r) =>
            LET j == eval_result'[r].val IN
            /\ eval_result'[r].some
            /\ (j.success_criteria_met \/ j.user_input_needed) =>
                 /\ pc'[r] = "END"
                 /\ response'[r] = ChatResponse(Last(state'[r].messages).content)
                 /\ Last(state'[r].messages) = Last(state[r].messages)
            /\ ~(j.success_criteria_met \/ j.user_input_needed) => pc'[r] = "worker"
       /\ pc[r] = "END" =>
            pc'[r] = "END" /\ response'[r] = response[r] /\ state'[r] = state[r]
    ]_vars

C1_Witness ==
  \E r \in Requests :
    /\ pc[r] = "END"
    /\ eval_result[r].val.success_criteria_met
    /\ eval_result[r].val.user_input_needed
    /\ response[r] = ChatResponse(Last(state[r].messages).content)

\* C2: after a Worker step the run is at the tools node exactly when the
\* message the worker just appended carries tool requests, and at the
\* evaluator otherwise; a run at the evaluator never has a last message with
\* tool requests.
C2_WorkerRouting ==
  [][\A r \in Requests :
       /\ (WorkerStep(r) /\ pc'[r] # "failed") =>
            /\ Len(state'[r].messages) = Len(state[r].messages) + 1
            /\ Last(state'[r].messages).type = "ai"
            /\ pc'[r] \in {"tools", "evaluator"}
            /\ pc'[r] = "tools" <=> Last(state'[r].messages).tool_calls # <<>>
       /\ pc'[r] = "evaluator" => Last(state'[r].messages).tool_calls = <<>>
    ]_vars

C2_Witness ==
  \E r \in Requests :
    /\ pc[r] = "evaluator"
    /\ Last(state[r].messages).type = "ai"
    /\ Last(state[r].messages).tool_calls = <<>>
    /\ \E q \in Requests : pc[q] = "tools" /\ Last(state[q].messages).tool_calls # <<>>

\* C3: the messages of every session (the thread's saved channels) only grow:
\* each step leaves the earlier messages where they were.
C3_AppendOnly ==
  [][\A t \in Threads : IsPrefix(store[t].messages, store'[t].messages)]_vars

\* C4: a judgment with both flags false sends the run back to the worker with
\* feedback_on_work equal to the judgment's feedback, and the system message
\* of every later worker call of the turn contains that feedback verbatim.
C4_FeedbackReachesWorker ==
  [][\A r \in Requests :
       /\ EvaluatorStep(r) =>
            LET j == eval_result'[r].val IN
            (~j.success_criteria_met /\ ~j.user_input_needed) =>
               /\ pc'[r] = "worker"
               /\ state'[r].feedback_on_work = Some(j.feedback)
       /\ (WorkerStep(r) /\ eval_result[r].some) =>
            /\ state[r].feedback_on_work = Some(eval_result[r].val.feedback)
            /\ llm_input'[r][1].type = "system"
            /\ Contains(llm_input'[r][1].content, eval_result[r].val.feedback)
    ]_vars

C4_Witness ==
  \E r \in Requests :
    /\ eval_result[r].some
    /\ eval_result[r].val.feedback # <<>>
    /\ ~eval_result[r].val.success_criteria_met
    /\ ~eval_result[r].val.user_input_needed
    /\ pc[r] \in {"tools", "evaluator"}
    /\ Contains(llm_input[r][1].content, eval_result[r].val.feedback)

\* C5: sessions with distinct thread ids do not interfere: the saved state of
\* a thread changes only in a step of a request running under that thread,
\* and every message in a thread's saved state or in a run's channels was
\* created by a request running under the same thread.
CreatedUnder(msgs, threadOf, t) == \A i \in DOMAIN msgs : threadOf[msgs[i].id[1]] = t
C5_SessionsIndependent ==
  [][/\ \A t \in Threads :
          store'[t] # store[t] =>
            \E r \in Requests : thread'[r] = t /\ pc'[r] # pc[r]
     /\ \A t \in Threads : CreatedUnder(store'[t].messages, thread', t)
     /\ \A r \in Requests : CreatedUnder(state'[r].messages, thread', thread'[r])
    ]_vars


C5_Witness ==
  \E r, q \in Requests :
    /\ Running(r) /\ Running(q)
    /\ thread[r] # thread[q]
    /\ Len(state[r].messages) >= 2
    /\ Len(state[q].messages) >= 2
    /\ store[thread[r]] = state[r]
    /\ store[thread[q]] = state[q]

\* C6: at most one run is in progress on a thread at any time.
C6_OneRunPerThread ==
  \A r, q \in Requests :
    (r # q /\ Running(r) /\ Running(q)) => thread[r] # thread[q]

\* C7: once the fare lookup has answered with the cold-start text in a turn,
\* the worker's next message of that turn is the fixed warning and no later
\* worker message of the turn requests the fare lookup again.
IsColdStartResult(m) ==
  /\ m.type = "tool"
  /\ m.name = FARE_TOOL
  /\ Contains(m.content, <<"reiniciando">>) \/ Contains(m.content, <<"Cold Start">>)
RequestsTool(m, name) == \E c \in DOMAIN m.tool_calls : m.tool_calls[c].name = name
C7_NoRetryAfterColdStart ==
  \A r \in Requests :
    LET msgs == state[r].messages IN
    \A i \in DOMAIN msgs :
      (IsColdStartResult(msgs[i]) /\ msgs[i].id[1] = r) =>
        \A j \in DOMAIN msgs :
          (j > i /\ msgs[j].type = "ai") =>
            /\ ~RequestsTool(msgs[j], FARE_TOOL)
            /\ (\A k \in (i+1)..(j-1) : msgs[k].type # "ai") => msgs[j].content = WARNING_TEXT

HasCredentials(e) == Truthy(e.sender) /\ Truthy(e.password)

\* C8: send_email called without the sender address or without the
\* application password returns a string containing the configuration-error
\* marker, raises nothing and opens no SMTP connection.
C8_MissingCredentials ==
  \A i \in DOMAIN calls :
    (calls[i].tool = EMAIL_TOOL /\ ~HasCredentials(calls[i].arg)) =>
      /\ calls[i].ret.kind = "str"
      /\ Contains(calls[i].ret.val, CONFIG_ERROR_MARKER)
      /\ ~calls[i].ret.raised
      /\ calls[i].ret.connects = 0
      /\ ~calls[i].ret.sent

C8_Witness ==
  \E i, k \in DOMAIN calls :
    /\ calls[i].tool = EMAIL_TOOL /\ calls[i].arg.sender = None
    /\ calls[i].arg.password # None
    /\ calls[k].tool = EMAIL_TOOL /\ calls[k].arg.password = None
    /\ calls[k].arg.sender = Some(<<"sender@gmail.com">>)
    /\ calls[i].ret.val = CONFIG_ERROR_MSG /\ calls[k].ret.val = CONFIG_ERROR_MSG

\* C9: send_email called with both credentials opens exactly one SMTP
\* connection, raises nothing, and returns a string: a confirmation when the
\* mail went out, an error text when a step of the submission failed.
C9_EmailResult ==
  \A i \in DOMAIN calls :
    (calls[i].tool = EMAIL_TOOL /\ HasCredentials(calls[i].arg)) =>
      /\ calls[i].ret.connects = 1
      /\ ~calls[i].ret.raised
      /\ calls[i].ret.kind = "str"
      /\ calls[i].ret.sent <=> calls[i].arg.fail_at = "none"

\* C10 as stated: the fare lookup never raises; 429 gives the rate-limit
\* text, 502 the cold-start text, any other non-2xx status and any network or
\* unexpected failure an {error: message} dict, and every 2xx response the
\* fare data.
FareData(ret) == ret.kind = "dict" /\ ret.val = FARE_DATA
C10_FareOutcomesCommon(c) ==
  /\ ~c.ret.raised
  /\ (c.arg.net = "response" /\ c.arg.status = 429) =>
       c.ret.kind = "str" /\ c.ret.val = RATE_LIMIT_MSG
  /\ (c.arg.net = "response" /\ c.arg.status = 502) =>
       c.ret.kind = "str" /\ c.ret.val = COLD_START_MSG
  /\ RATE_LIMIT_MSG # COLD_START_MSG
  /\ (c.arg.net = "response" /\ ~is_success(c.arg.status) /\ c.arg.status \notin {429, 502}) =>
       IsErrorDict(c.ret)
  /\ c.arg.net # "response" => IsErrorDict(c.ret)

C10_Original ==
  \A i \in DOMAIN calls :
    calls[i].tool = FARE_TOOL =>
      /\ C10_FareOutcomesCommon(calls[i])
      /\ (calls[i].arg.net = "response" /\ is_success(calls[i].arg.status)) =>
           FareData(calls[i].ret)

\* C10 as amended: as above, but a 2xx response gives the fare data only when
\* its body decodes as JSON; a 2xx response whose body does not decode gives
\* an {error: message} dict.
C10_FareOutcomes ==
  \A i \in DOMAIN calls :
    calls[i].tool = FARE_TOOL =>
      /\ C10_FareOutcomesCommon(calls[i])
      /\ (calls[i].arg.net = "response" /\ is_success(calls[i].arg.status)) =>
           IF calls[i].arg.json_ok THEN FareData(calls[i].ret)
           ELSE IsErrorDict(calls[i].ret)

C10_Witness ==
  \E i, k \in DOMAIN calls :
    /\ calls[i].tool = FARE_TOOL /\ calls[i].arg.net = "response"
    /\ is_success(calls[i].arg.status) /\ ~calls[i].arg.json_ok
    /\ IsErrorDict(calls[i].ret)
    /\ calls[k].tool = FARE_TOOL /\ calls[k].arg.net = "response"
    /\ calls[k].arg.status = 429 /\ calls[k].ret.val = RATE_LIMIT_MSG


\* C11: a request is answered with a success response exactly when its run
\* reached END, and then with the content of the last message; it is answered
\* with HTTP 500 carrying the exception's message exactly when a step raised;
\* a request still running is not answered.
ExceptionMessages == {"worker llm error", "evaluator llm error", "tool error"}
C11_RequestOutcome ==
  \A r \in Requests :
    /\ response[r].status = "success" <=> pc[r] = "END"
    /\ response[r].status = "500" <=> pc[r] = "failed"
    /\ pc[r] = "END" => response[r].body = Last(state[r].messages).content
    /\ pc[r] = "failed" =>
         Len(response[r].body) = 1 /\ response[r].body[1] \in ExceptionMessages
    /\ pc[r] \notin {"END", "failed"} => response[r] = NoResponse

C11_Witness ==
  \E r, q \in Requests :
    /\ pc[r] = "END" /\ response[r].status = "success"
    /\ pc[q] = "failed" /\ response[q] = HTTPException("evaluator llm error")

Answered(msgs) ==
  \A i \in DOMAIN msgs : \A c \in DOMAIN msgs[i].tool_calls :
    \E k \in DOMAIN msgs :
      /\ k > i
      /\ msgs[k].type = "tool"
      /\ msgs[k].tool_call_id = msgs[i].tool_calls[c].id
      /\ msgs[k].name = msgs[i].tool_calls[c].name

\* C13: a Tools step always ends at the worker, with a result entry appended
\* for every tool request of the last assistant message; so at every Worker
\* invocation each tool request in the log has its result entry.
C13_ToolsThenWorker ==
  [][\A r \in Requests :
       /\ (pc[r] = "tools" /\ pc'[r] # "tools") =>
            /\ pc'[r] = "worker"
            /\ IsPrefix(state[r].messages, state'[r].messages)
            /\ Len(state'[r].messages) =
                 Len(state[r].messages) + Len(Last(state[r].messages).tool_calls)
            /\ Answered(state'[r].messages)
       /\ WorkerStep(r) => Answered(state[r].messages)
    ]_vars


\* C14: an Evaluator step leaves messages and success_criteria of the run's
\* state as they were and sets feedback_on_work, success_criteria_met and
\* user_input_needed to the judgment's three fields; the state it saves is
\* that state, so the judgment is in no message.
C14_EvaluatorFrame ==
  [][\A r \in Requests :
       (pc[r] = "evaluator" /\ pc'[r] \in {"worker", "END"}) =>
         LET j == eval_result'[r].val IN
         /\ state'[r].messages = state[r].messages
         /\ state'[r].success_criteria = state[r].success_criteria
         /\ state'[r].feedback_on_work = Some(j.feedback)
         /\ state'[r].success_criteria_met = j.success_criteria_met
         /\ state'[r].user_input_needed = j.user_input_needed
         /\ store'[thread[r]] = state'[r]
    ]_vars

C14_Witness ==
  \E r \in Requests :
    /\ pc[r] = "worker"
    /\ eval_result[r].some
    /\ state[r].feedback_on_work = Some(<<"offer the email summary">>)
    /\ Len(state[r].messages) = 2
    /\ Last(state[r].messages).type = "ai"

\* C15: a Worker step appends exactly one message, an AIMessage, to the
\* run's messages and leaves success_criteria, feedback_on_work,
\* success_criteria_met and user_input_needed as they were.
C15_WorkerFrame ==
  [][\A r \in Requests :
       (WorkerStep(r) /\ pc'[r] # "failed") =>
         /\ Len(state'[r].messages) = Len(state[r].messages) + 1
         /\ IsPrefix(state[r].messages, state'[r].messages)
         /\ Last(state'[r].messages).type = "ai"
         /\ state'[r].success_criteria = state[r].success_criteria
         /\ state'[r].feedback_on_work = state[r].feedback_on_work
         /\ state'[r].success_criteria_met = state[r].success_criteria_met
         /\ state'[r].user_input_needed = state[r].user_input_needed
    ]_vars

\* a worker step taken with feedback set and after a tool result
C15_Witness ==
  \E r \in Requests :
    /\ pc[r] = "evaluator"
    /\ Len(state[r].messages) >= 4
    /\ state[r].messages[Len(state[r].messages) - 1].type = "tool"


\* C16: at every Worker invocation the list handed to the language model
\* holds exactly one SystemMessage, at position 1, built from the state of
\* this invocation (criteria and current feedback), followed by the state's
\* non-system messages in their order; so the number of system entries stays
\* one however many iterations and turns came before.
C16_OneSystemEntry ==
  [][\A r \in Requests :
       WorkerStep(r) =>
         LET inp == llm_input'[r] IN
         /\ Len(inp) >= 1
         /\ inp[1] = SystemMessage(system_message_content(state[r]))
         /\ Cardinality({i \in 1..Len(inp) : inp[i].type = "system"}) = 1
         /\ SubSeq(inp, 2, Len(inp)) = SelectSeq(state[r].messages, IsNotSystem)
    ]_vars

\* a Worker invocation of a second turn, after a rejection in that turn
C16_Witness ==
  \E r \in Requests :
    /\ eval_result[r].some
    /\ Len(llm_input[r]) >= 4
    /\ llm_input[r][1].type = "system"
    /\ Contains(llm_input[r][1].content, <<"Previously your reply was rejected. Feedback: ">>)
    /\ \E i \in 2..Len(llm_input[r]) : llm_input[r][i].id[1] # r


\* C17 as stated: the results for HTTP 429 and for HTTP 502 are both warning
\* strings containing at least one of the markers named by the worker's
\* error-handling rule.
PROMPT_MARKERS == {<<"Cold Start">>, <<"reiniciando">>, <<"502">>}
HasMarker(txt) == \E m \in PROMPT_MARKERS : Contains(txt, m)
IsSpecialCase(c, status) ==
  c.tool = FARE_TOOL /\ c.arg.net = "response" /\ c.arg.status = status
C18_TerminalMessage ==
  \A r \in Requests :
    pc[r] = "END" =>
      LET last == Last(state[r].messages) IN
      /\ last.type = "ai"
      /\ last.tool_calls = <<>>
      /\ last.id[1] = r
      /\ llm_input[r] # <<>>
      /\ response[r] = ChatResponse(last.content)

\* a later turn on a thread that already holds an AIMessage of an earlier
\* request reaches END
C18_Witness ==
  \E r \in Requests :
    /\ pc[r] = "END"
    /\ \E i \in DOMAIN state[r].messages :
         state[r].messages[i].type = "ai" /\ state[r].messages[i].id[1] # r


\* C19: a request starts its run with success_criteria_met and
\* user_input_needed false and feedback_on_work None, whatever the thread's
\* checkpoint held, with the checkpoint's messages kept and the new
\* HumanMessage appended after them, and goes to the worker; until the
\* evaluator has judged in this run the worker's system message carries no
\* feedback section; and no run reaches END without a worker call of its own.
StartStep(r) == pc[r] = "idle" /\ pc'[r] # "idle"
NoFeedbackPrompt(msgs) ==
  /\ msgs[1].type = "system"
  /\ ~Contains(msgs[1].content, <<"Previously your reply was rejected. Feedback: ">>)
  /\ \A f \in FeedbackTexts : f # <<>> => ~Contains(msgs[1].content, f)
C19_FreshTurn ==
  [][\A r \in Requests :
       /\ StartStep(r) =>
            LET old == store[thread'[r]].messages
                new == state'[r].messages IN
            /\ state'[r].success_criteria_met = FALSE
            /\ state'[r].user_input_needed = FALSE
            /\ state'[r].feedback_on_work = None
            /\ Len(new) = Len(old) + 1
            /\ IsPrefix(old, new)
            /\ Last(new).type = "human"
            /\ Last(new).content = request'[r].message
            /\ pc'[r] = "worker"
       /\ (WorkerStep(r) /\ ~eval_result[r].some) => NoFeedbackPrompt(llm_input'[r])
       /\ pc'[r] = "END" => llm_input'[r] # <<>>
    ]_vars

\* a turn on a thread whose earlier turn ended with feedback text saved, with
\* the new turn's worker already called
C19_Witness ==
  \E r, q \in Requests :
    /\ q < r /\ thread[q] = thread[r]
    /\ pc[q] = "END" /\ Truthy(state[q].feedback_on_work)
    /\ pc[r] = "evaluator" /\ ~eval_result[r].some
    /\ state[r].feedback_on_work = None
    /\ IsPrefix(state[q].messages, state[r].messages)
    /\ NoFeedbackPrompt(llm_input[r])


\* C20: every request sent without a thread_id runs under "default_user":
\* its run starts from the checkpoint saved under that key, with its
\* HumanMessage appended, and every state it saves goes to that same key; so
\* two such requests belong to one session, and the one that starts when
\* the other's state is the saved one has all of the other's messages.
Omitted(r) == request[r] # NoRequest /\ ~request[r].thread_id.some
C20_DefaultSession ==
  [][\A r \in Requests :
       /\ (StartStep(r) /\ ~request'[r].thread_id.some) =>
            /\ thread'[r] = DEFAULT_THREAD
            /\ state'[r].messages =
                 Append(store[DEFAULT_THREAD].messages, Last(state'[r].messages))
            /\ Last(state'[r].messages).type = "human"
            /\ store'[DEFAULT_THREAD] = state'[r]
            /\ \A q \in Requests :
                 (q # r /\ Omitted(q)) =>
                   /\ thread[q] = thread'[r]
                   /\ store[DEFAULT_THREAD] = state[q] =>
                        IsPrefix(state[q].messages, state'[r].messages)
       /\ (Omitted(r) /\ state'[r] # state[r]) =>
            /\ thread[r] = DEFAULT_THREAD
            /\ store'[DEFAULT_THREAD] = state'[r]
    ]_vars

\* two requests without thread_id, the second one's run holding the first
\* one's question and answer before its own question
C20_Witness ==
  \E q, r \in Requests :
    /\ q # r /\ Omitted(q) /\ Omitted(r)
    /\ pc[q] = "END" /\ pc[r] \in {"worker", "evaluator"}
    /\ Len(state[r].messages) > Len(state[q].messages)
    /\ IsPrefix(state[q].messages, state[r].messages)
    /\ state[r].messages[Len(state[q].messages) + 1].type = "human"
    /\ store[DEFAULT_THREAD] = state[r]

====
